---- MODULE Spec2Model ----
(***************************************************************************)
(* Model of zm_geniso (src/src/iso.c): the driver that builds a cloud-init *)
(* NoCloud image with libisofs/libisoburn and streams it to a file.        *)
(*                                                                         *)
(* The function is sequential; pc is its position.  Every external call    *)
(* (library, open, read, write, close) is an action whose result is drawn  *)
(* from the results the callee can report.  calls is the history of the    *)
(* external calls made so far, in order.                                   *)
(*                                                                         *)
(* Bytes are identified by where they come from: a byte of the stream the  *)
(* burn source produces is its position in that stream, and a run of       *)
(* consecutive bytes is an extent [src, lo, hi].  A file's content is a    *)
(* sequence of extents.                                                    *)
(***************************************************************************)
EXTENDS Integers, Sequences, FiniteSets

VARIABLES
    output, user_data, meta_data,   \* the three arguments
    old_file,                       \* history: the file at the output path at the call
    pc,                             \* position in zm_geniso
    initialized,                    \* libraries initialised so far
    image, imageObj,                \* IsoImage *image and the object it points to
    root,                           \* IsoDir *root
    opts, optsObj,                  \* IsoWriteOpts *opts and its object
    burn_src, srcObj,               \* struct burn_source *burn_src and its object
    fd,                             \* output file descriptor
    errno,                          \* the thread's errno
    open_errno,                     \* history: errno right after open returned
    r, chunk, w,                    \* locals of the copy loop
    buffer,                         \* extent of stream bytes held in buffer[]
    chunks,                         \* history: the non-empty chunks read returned
    file,                           \* the file at the output path
    calls,                          \* history: external calls, in order
    ret                             \* the value returned, once pc = "done"

vars == <<output, user_data, meta_data, old_file, pc, initialized, image, imageObj, root,
          opts, optsObj, burn_src, srcObj, fd, errno, open_errno, r, chunk, w,
          buffer, chunks, file, calls, ret>>

\* ---------------------------------------------------------------- bounds
\* the burn source returns at most MaxReads non-empty chunks
MaxReads == 3

\* ------------------------------------------------------------- constants
BufSize == 2048
EINVAL == 22

NULL == "NULL"

\* errno values a failing open may set, and values a later call may leave
OpenErrnos == {2, 13, 28}
ClobberErrnos == {4, 11}

\* chunk lengths the burn source's read may return (1 .. BufSize)
ChunkLens == {1, BufSize \div 2, BufSize}

\* results write(fd, buffer, n) may report: error, or 0 .. n bytes written
WriteResults(n) == {-1, 0, n \div 2, n - 1, n}

\* ------------------------------------------------------------- the file
NoExtent == [src |-> "none", lo |-> 1, hi |-> 0]
OldData == <<[src |-> "old", lo |-> 1, hi |-> 5]>>
AbsentFile == [exists |-> FALSE, data |-> <<>>]
OldFile == [exists |-> TRUE, data |-> OldData]

ExtLen(e) == e.hi - e.lo + 1

RECURSIVE DataLen(_)
DataLen(d) == IF d = <<>> THEN 0 ELSE ExtLen(d[1]) + DataLen(Tail(d))

RECURSIVE SumSeq(_)
SumSeq(s) == IF s = <<>> THEN 0 ELSE s[1] + SumSeq(Tail(s))

\* d is the first DataLen(d) bytes of the burn source's stream
IsStreamPrefix(d) ==
    /\ \A i \in 1..Len(d) : d[i].src = "stream" /\ d[i].lo <= d[i].hi
    /\ Len(d) > 0 => d[1].lo = 1
    /\ \A i \in 1..(Len(d) - 1) : d[i + 1].lo = d[i].hi + 1

\* open(output, O_CREAT | O_TRUNC | O_WRONLY, 0644), when it succeeds
OpenCreatTrunc(f) == [exists |-> TRUE, data |-> <<>>]

\* ---------------------------------------------------------- call history
Call(op, arg, res, ok) == [op |-> op, arg |-> arg, res |-> res, ok |-> ok]

RECURSIVE Releases(_)
Releases(ops) ==
    IF ops = <<>> THEN <<>>
    ELSE <<Call(ops[1], 0, 0, TRUE)>> \o Releases(Tail(ops))

ReleaseOps == {"close", "burn_source_free", "iso_write_opts_free", "iso_image_unref"}

\* the resource an acquiring call yields / a releasing call gives up
ResourceOf(op) ==
    CASE op = "iso_image_new" -> "image"
      [] op = "iso_image_unref" -> "image"
      [] op = "iso_write_opts_new" -> "opts"
      [] op = "iso_write_opts_free" -> "opts"
      [] op = "iso_image_create_burn_source" -> "burn_src"
      [] op = "burn_source_free" -> "burn_src"
      [] op = "open" -> "fd"
      [] op = "close" -> "fd"
      [] OTHER -> "none"

AcquireOps == {"iso_image_new", "iso_write_opts_new",
               "iso_image_create_burn_source", "open"}

\* ------------------------------------------------------------------ Init
NoImage == [volume_id |-> "", children |-> <<>>]
NoOpts == [level |-> 0, rockridge |-> 0, joliet |-> 0]
NoSrc == [image |-> NoImage, opts |-> NoOpts, has_read |-> FALSE]

Init ==
    /\ output \in {NULL, "out.iso"}
    /\ user_data \in {NULL, "user.yaml"}
    /\ meta_data \in {NULL, "meta.yaml"}
    /\ pc = "entry"
    /\ initialized = {}
    /\ image = NULL /\ imageObj = NoImage
    /\ root = NULL
    /\ opts = NULL /\ optsObj = NoOpts
    /\ burn_src = NULL /\ srcObj = NoSrc
    /\ fd = -1
    /\ errno = 0
    /\ open_errno = 0
    /\ r = 0 /\ chunk = 0 /\ w = 0
    /\ buffer = NoExtent
    /\ chunks = <<>>
    /\ file \in {AbsentFile, OldFile}
    /\ old_file = file
    /\ calls = <<>>
    /\ ret = -1

\* return code, having made the calls cs (the failed call and the releases)
Return(code, cs) ==
    /\ ret' = code
    /\ pc' = "done"
    /\ calls' = calls \o cs

\* go on at next, having made the call c
Goto(next, c) ==
    /\ pc' = next
    /\ calls' = Append(calls, c)
    /\ UNCHANGED ret

\* ------------------------------------------------------- lines 12 - 13
\* mutant: the check of meta_data is forgotten
ArgsInvalid_NoMeta == output = NULL \/ user_data = NULL

ArgsInvalid == output = NULL \/ user_data = NULL \/ meta_data = NULL

Entry ==
    /\ pc = "entry"
    /\ IF ArgsInvalid
       THEN Return(EINVAL, <<>>)
       ELSE /\ pc' = "isoburn_initialize"
            /\ UNCHANGED <<ret, calls>>
    /\ UNCHANGED <<output, user_data, meta_data, old_file, initialized, image, imageObj,
                   root, opts, optsObj, burn_src, srcObj, fd, errno, open_errno,
                   r, chunk, w, buffer, chunks, file>>

\* ------------------------------------------------------- lines 15 - 18
IsoburnInitialize ==
    /\ pc = "isoburn_initialize"
    /\ \E res \in {1, 0, -1} :
         IF res <= 0
         THEN /\ Return(126, <<Call("isoburn_initialize", 0, res, FALSE)>>)
              /\ UNCHANGED initialized
         ELSE /\ Goto("iso_init", Call("isoburn_initialize", 0, res, TRUE))
              /\ initialized' = initialized \cup {"isoburn"}
    /\ UNCHANGED <<output, user_data, meta_data, old_file, image, imageObj, root, opts,
                   optsObj, burn_src, srcObj, fd, errno, open_errno, r, chunk, w,
                   buffer, chunks, file>>

\* ------------------------------------------------------- lines 19 - 21
IsoInit ==
    /\ pc = "iso_init"
    /\ \E res \in {1, -1} :
         IF res < 0
         THEN /\ Return(126, <<Call("iso_init", 0, res, FALSE)>>)
              /\ UNCHANGED initialized
         ELSE /\ Goto("iso_image_new", Call("iso_init", 0, res, TRUE))
              /\ initialized' = initialized \cup {"libisofs"}
    /\ UNCHANGED <<output, user_data, meta_data, old_file, image, imageObj, root, opts,
                   optsObj, burn_src, srcObj, fd, errno, open_errno, r, chunk, w,
                   buffer, chunks, file>>

\* ------------------------------------------------------- lines 23 - 26
\* iso_image_new(name, &image) yields a result and a pointer: a new image
\* called name with an empty root, or no image
ImageNew ==
    /\ pc = "iso_image_new"
    /\ \E out \in {<<1, "image">>, <<-1, NULL>>, <<1, NULL>>} :
         /\ image' = out[2]
         /\ IF out[1] < 0 \/ out[2] = NULL
            THEN /\ Return(126, <<Call("iso_image_new", 0, out[1], FALSE)>>)
                 /\ UNCHANGED imageObj
            ELSE /\ Goto("iso_image_set_volume_id",
                         Call("iso_image_new", 0, out[1], TRUE))
                 /\ imageObj' = [volume_id |-> "cidata", children |-> <<>>]
    /\ UNCHANGED <<output, user_data, meta_data, old_file, initialized, root, opts,
                   optsObj, burn_src, srcObj, fd, errno, open_errno, r, chunk, w,
                   buffer, chunks, file>>

\* ------------------------------------------------------------- line 28
SetVolumeId ==
    /\ pc = "iso_image_set_volume_id"
    /\ imageObj' = [imageObj EXCEPT !.volume_id = "cidata"]
    /\ Goto("iso_image_get_root", Call("iso_image_set_volume_id", 0, 0, TRUE))
    /\ UNCHANGED <<output, user_data, meta_data, old_file, initialized, image, root, opts,
                   optsObj, burn_src, srcObj, fd, errno, open_errno, r, chunk, w,
                   buffer, chunks, file>>

\* ------------------------------------------------------- lines 30 - 34
GetRoot ==
    /\ pc = "iso_image_get_root"
    /\ \E res \in {"root", NULL} :
         /\ root' = res
         /\ IF res = NULL
            THEN Return(126, <<Call("iso_image_get_root", 0, 0, FALSE)>>
                             \o Releases(<<"iso_image_unref">>))
            ELSE Goto("add_user_data", Call("iso_image_get_root", 0, 1, TRUE))
    /\ UNCHANGED <<output, user_data, meta_data, old_file, initialized, image, imageObj,
                   opts, optsObj, burn_src, srcObj, fd, errno, open_errno, r,
                   chunk, w, buffer, chunks, file>>

\* ------------------------------------------------------- lines 36 - 46
\* iso_tree_add_new_node(image, root, name, path, &tmp_node): on success the
\* root gains one file node called name whose content is the file at path
AddNode(name, path, next) ==
    \E res \in {1, -1} :
         IF res < 0
         THEN /\ Return(125, <<Call("iso_tree_add_new_node", 0, res, FALSE)>>
                             \o Releases(<<"iso_image_unref">>))
              /\ UNCHANGED imageObj
         ELSE /\ Goto(next, Call("iso_tree_add_new_node", 0, res, TRUE))
              /\ imageObj' = [imageObj EXCEPT !.children =
                                Append(@, [name |-> name, path |-> path])]

UserDataNode == [name |-> "user-data", path |-> user_data]

\* mutant: the meta-data node is bound to the user_data argument
MetaDataNode_Swapped == [name |-> "meta-data", path |-> user_data]

MetaDataNode == [name |-> "meta-data", path |-> meta_data]

AddUserData ==
    /\ pc = "add_user_data"
    /\ AddNode(UserDataNode.name, UserDataNode.path, "add_meta_data")
    /\ UNCHANGED <<output, user_data, meta_data, old_file, initialized, image, root, opts,
                   optsObj, burn_src, srcObj, fd, errno, open_errno, r, chunk, w,
                   buffer, chunks, file>>

AddMetaData ==
    /\ pc = "add_meta_data"
    /\ AddNode(MetaDataNode.name, MetaDataNode.path, "iso_write_opts_new")
    /\ UNCHANGED <<output, user_data, meta_data, old_file, initialized, image, root, opts,
                   optsObj, burn_src, srcObj, fd, errno, open_errno, r, chunk, w,
                   buffer, chunks, file>>

\* ------------------------------------------------------- lines 48 - 49
\* iso_write_opts_new(&opts, profile): options of the given profile, with
\* Rock Ridge and Joliet off until they are set
WriteOptsNew ==
    /\ pc = "iso_write_opts_new"
    /\ \E out \in {<<1, "opts">>, <<-1, NULL>>, <<1, NULL>>} :
         /\ opts' = out[2]
         /\ IF out[1] < 0 \/ out[2] = NULL
            THEN /\ Return(126, <<Call("iso_write_opts_new", 2, out[1], FALSE)>>
                                \o Releases(<<"iso_image_unref">>))
                 /\ UNCHANGED optsObj
            ELSE /\ Goto("iso_write_opts_set_rockridge",
                         Call("iso_write_opts_new", 2, out[1], TRUE))
                 /\ optsObj' = [level |-> 2, rockridge |-> 0, joliet |-> 0]
    /\ UNCHANGED <<output, user_data, meta_data, old_file, initialized, image, imageObj,
                   root, burn_src, srcObj, fd, errno, open_errno, r, chunk, w,
                   buffer, chunks, file>>

\* ------------------------------------------------------- lines 50 - 51
\* the setters fail on a NULL opts only, which line 49 has excluded
SetRockridge ==
    /\ pc = "iso_write_opts_set_rockridge"
    /\ optsObj' = [optsObj EXCEPT !.rockridge = 1]
    /\ Goto("iso_write_opts_set_joliet",
            Call("iso_write_opts_set_rockridge", 1, 1, TRUE))
    /\ UNCHANGED <<output, user_data, meta_data, old_file, initialized, image, imageObj,
                   root, opts, burn_src, srcObj, fd, errno, open_errno, r, chunk,
                   w, buffer, chunks, file>>

SetJoliet ==
    /\ pc = "iso_write_opts_set_joliet"
    /\ optsObj' = [optsObj EXCEPT !.joliet = 1]
    /\ Goto("iso_image_create_burn_source",
            Call("iso_write_opts_set_joliet", 1, 1, TRUE))
    /\ UNCHANGED <<output, user_data, meta_data, old_file, initialized, image, imageObj,
                   root, opts, burn_src, srcObj, fd, errno, open_errno, r, chunk,
                   w, buffer, chunks, file>>

\* ------------------------------------------------------- lines 53 - 58
CleanupSourceFail == <<"iso_write_opts_free", "iso_image_unref">>

\* iso_image_create_burn_source(image, opts, &burn_src): a source that
\* streams the image as it is now, written with the options as they are now;
\* it offers read or, in the newer ABI, read_xt
CreateBurnSource ==
    /\ pc = "iso_image_create_burn_source"
    /\ \E out \in {<<1, "burn_src">>, <<-1, NULL>>, <<1, NULL>>} :
         /\ burn_src' = out[2]
         /\ IF out[1] < 0 \/ out[2] = NULL
            THEN /\ Return(126,
                      <<Call("iso_image_create_burn_source", 0, out[1], FALSE)>>
                      \o Releases(CleanupSourceFail))
                 /\ UNCHANGED srcObj
            ELSE /\ Goto("open",
                         Call("iso_image_create_burn_source", 0, out[1], TRUE))
                 /\ \E has_read \in BOOLEAN :
                      srcObj' = [image |-> imageObj, opts |-> optsObj,
                                 has_read |-> has_read]
    /\ UNCHANGED <<output, user_data, meta_data, old_file, initialized, image, imageObj,
                   root, opts, optsObj, fd, errno, open_errno, r, chunk, w,
                   buffer, chunks, file>>

\* ------------------------------------------------------- lines 60 - 68
\* mutant: the burn source is not freed when open fails
CleanupOpenFail_Leak == <<"iso_write_opts_free", "iso_image_unref">>

CleanupOpenFail == <<"burn_source_free", "iso_write_opts_free", "iso_image_unref">>

\* A failing open sets errno.  The release calls that follow may leave errno
\* as it is or set it to another non-zero value; line 65 reads it after them.
OpenOutput ==
    /\ pc = "open"
    /\ \/ /\ fd' = 3
          /\ file' = OpenCreatTrunc(file)
          /\ r' = 0
          /\ Goto("read", Call("open", 0, 3, TRUE))
          /\ UNCHANGED <<errno, open_errno>>
       \/ \E e \in OpenErrnos :
            \E after \in {e} \cup ClobberErrnos :
               /\ fd' = -1
               /\ open_errno' = e
               /\ errno' = after
               /\ Return(errno', <<Call("open", 0, -1, FALSE)>>
                                 \o Releases(CleanupOpenFail))
               /\ UNCHANGED <<file, r>>
    /\ UNCHANGED <<output, user_data, meta_data, old_file, initialized, image, imageObj,
                   root, opts, optsObj, burn_src, srcObj, chunk, w, buffer,
                   chunks>>

\* ------------------------------------------------------- lines 70 - 73
\* number of bytes the burn source has produced so far
Produced == SumSeq(chunks)

ReadResults == (IF Len(chunks) < MaxReads THEN ChunkLens ELSE {}) \cup {0, -1}

Read ==
    /\ pc = "read"
    /\ \E n \in ReadResults :
         /\ chunk' = n
         /\ calls' = Append(calls,
                 Call(IF srcObj.has_read THEN "read" ELSE "read_xt",
                      BufSize, n, n >= 0))
         /\ IF n < 0
            THEN /\ r' = -1
                 /\ pc' = "close"
                 /\ UNCHANGED <<buffer, chunks>>
            ELSE IF n = 0
            THEN /\ pc' = "close"
                 /\ UNCHANGED <<r, buffer, chunks>>
            ELSE /\ buffer' = [src |-> "stream", lo |-> Produced + 1,
                               hi |-> Produced + n]
                 /\ chunks' = Append(chunks, n)
                 /\ pc' = "write"
                 /\ UNCHANGED r
    /\ UNCHANGED <<output, user_data, meta_data, old_file, initialized, image, imageObj,
                   root, opts, optsObj, burn_src, srcObj, fd, errno, open_errno,
                   w, file, ret>>

\* ------------------------------------------------------- lines 74 - 75
\* mutant: the bytes are taken from the end of the buffer
WrittenExtent_Tail(buf, res) == [src |-> buf.src, lo |-> buf.hi - res + 1, hi |-> buf.hi]

\* mutant: one byte fewer than reported reaches the file
WrittenExtent_OffByOne(buf, res) == [src |-> buf.src, lo |-> buf.lo, hi |-> buf.lo + res - 2]

\* the bytes write(fd, buf, n) puts at the end of the file when it reports res
WrittenExtent(buf, res) == [src |-> buf.src, lo |-> buf.lo, hi |-> buf.lo + res - 1]

\* mutant: the result of write is not looked at
WriteComplete_Ignored(res, n) == TRUE

\* mutant: only an error return stops the loop, a short write does not
WriteComplete_NoError(res, n) == res >= 0

\* line 75: the loop goes on only after a complete write
WriteComplete(res, n) == res = n

Write ==
    /\ pc = "write"
    /\ \E res \in WriteResults(chunk) :
         /\ w' = res
         /\ calls' = Append(calls, Call("write", chunk, res, res = chunk))
         /\ file' = IF res > 0
                    THEN [file EXCEPT !.data = Append(@, WrittenExtent(buffer, res))]
                    ELSE file
         /\ IF WriteComplete(res, chunk)
            THEN /\ pc' = "read"
                 /\ UNCHANGED r
            ELSE /\ r' = -1
                 /\ pc' = "close"
    /\ UNCHANGED <<output, user_data, meta_data, old_file, initialized, image, imageObj,
                   root, opts, optsObj, burn_src, srcObj, fd, errno, open_errno,
                   chunk, buffer, chunks, ret>>

\* ------------------------------------------------------------- line 77
\* close may report an error (a deferred write error, EIO); its result is
\* not looked at
Close ==
    /\ pc = "close"
    /\ \E res \in {0, -1} :
         Goto("free", Call("close", 0, res, res = 0))
    /\ UNCHANGED <<output, user_data, meta_data, old_file, initialized, image, imageObj,
                   root, opts, optsObj, burn_src, srcObj, fd, errno, open_errno,
                   r, chunk, w, buffer, chunks, file>>

\* ------------------------------------------------------- lines 79 - 81
CleanupFinal == <<"burn_source_free", "iso_write_opts_free", "iso_image_unref">>

FreeAll ==
    /\ pc = "free"
    /\ calls' = calls \o Releases(CleanupFinal)
    /\ pc' = "return"
    /\ UNCHANGED <<output, user_data, meta_data, old_file, initialized, image, imageObj,
                   root, opts, optsObj, burn_src, srcObj, fd, errno, open_errno,
                   r, chunk, w, buffer, chunks, file, ret>>

\* ------------------------------------------------------- lines 83 - 84
\* mutant: an I/O failure of the copy loop is reported as a setup failure
FinalReturn_Setup(rr) == IF rr < 0 THEN 126 ELSE 0

FinalReturn(rr) == IF rr < 0 THEN 125 ELSE 0

ReturnResult ==
    /\ pc = "return"
    /\ Return(FinalReturn(r), <<>>)
    /\ UNCHANGED <<output, user_data, meta_data, old_file, initialized, image, imageObj,
                   root, opts, optsObj, burn_src, srcObj, fd, errno, open_errno,
                   r, chunk, w, buffer, chunks, file>>

\* ------------------------------------------------------------ zm_geniso
Next ==
    \/ Entry
    \/ IsoburnInitialize
    \/ IsoInit
    \/ ImageNew
    \/ SetVolumeId
    \/ GetRoot
    \/ AddUserData
    \/ AddMetaData
    \/ WriteOptsNew
    \/ SetRockridge
    \/ SetJoliet
    \/ CreateBurnSource
    \/ OpenOutput
    \/ Read
    \/ Write
    \/ Close
    \/ FreeAll
    \/ ReturnResult

Spec == Init /\ [][Next]_vars

\* ----------------------------------------------------------- type check
TypeOK ==
    /\ pc \in {"entry", "isoburn_initialize", "iso_init", "iso_image_new",
               "iso_image_set_volume_id", "iso_image_get_root", "add_user_data",
               "add_meta_data", "iso_write_opts_new",
               "iso_write_opts_set_rockridge", "iso_write_opts_set_joliet",
               "iso_image_create_burn_source", "open", "read", "write",
               "close", "free", "return", "done"}
    /\ r \in {0, -1}
    /\ chunk \in -1..BufSize
    /\ w \in -1..BufSize
    /\ Len(chunks) <= MaxReads
    /\ fd \in {-1, 3}

\* ===================================================== claims' vocabulary
Done == pc = "done"

ReadOps == {"read", "read_xt"}

SetupOps == {"isoburn_initialize", "iso_init", "iso_image_new",
             "iso_image_get_root", "iso_write_opts_new",
             "iso_image_create_burn_source"}

\* the calls made with op in ops, in order
RECURSIVE Select(_, _)
Select(cs, ops) ==
    IF cs = <<>> THEN <<>>
    ELSE (IF cs[1].op \in ops THEN <<cs[1]>> ELSE <<>>) \o Select(Tail(cs), ops)

SomeFailed(ops) == \E i \in 1..Len(calls) : calls[i].op \in ops /\ ~calls[i].ok

OpenFailed == SomeFailed({"open"})
OpenSucceeded == \E i \in 1..Len(calls) : calls[i].op = "open" /\ calls[i].ok
AddNodeFailed == SomeFailed({"iso_tree_add_new_node"})
ReadFailed == SomeFailed(ReadOps)
WriteFailed == SomeFailed({"write"})
FileSize == DataLen(file.data)

\* the calls of a setup that succeeded, in the order of lines 16 - 54
FullSetup ==
    <<"isoburn_initialize", "iso_init", "iso_image_new",
      "iso_image_set_volume_id", "iso_image_get_root", "iso_tree_add_new_node",
      "iso_tree_add_new_node", "iso_write_opts_new",
      "iso_write_opts_set_rockridge", "iso_write_opts_set_joliet",
      "iso_image_create_burn_source">>

\* ------------------------------------------------------------------- C1
\* C1: a return of 0 implies that the last read returned 0, that every chunk
\* the source produced was passed to write and write reported its full
\* length, and that the file holds exactly the chunks in read order.
C1_ZeroMeansFullyWritten ==
    (Done /\ ret = 0) =>
        LET reads == Select(calls, ReadOps)
            writes == Select(calls, {"write"})
        IN /\ Len(reads) > 0 /\ reads[Len(reads)].res = 0
           /\ Len(writes) = Len(chunks)
           /\ \A k \in 1..Len(chunks) :
                 /\ writes[k].arg = chunks[k]
                 /\ writes[k].res = chunks[k]
           /\ file.exists
           /\ Len(file.data) = Len(chunks)
           /\ \A k \in 1..Len(chunks) : ExtLen(file.data[k]) = chunks[k]
           /\ IsStreamPrefix(file.data)
           /\ FileSize = Produced

C1_Witness ==
    /\ Done /\ ret = 0
    /\ Len(chunks) = 2 /\ chunks[1] # chunks[2]

\* ------------------------------------------------------------------- C2
\* C2: after a write that fails or is short no read and no write follows
\* (the next call is the close), and zm_geniso returns 125.
C2_FailedWriteStops ==
    \A i \in 1..Len(calls) :
        (calls[i].op = "write" /\ calls[i].res # calls[i].arg) =>
            /\ \A j \in (i + 1)..Len(calls) :
                  calls[j].op \notin ReadOps \cup {"write"}
            /\ i < Len(calls) => calls[i + 1].op = "close"
            /\ r = -1
            /\ Done => ret = 125

C2_Witness ==
    /\ Done
    /\ \E i \in 1..Len(calls) :
          /\ calls[i].op = "write"
          /\ calls[i].res > 0 /\ calls[i].res < calls[i].arg
    /\ Len(chunks) = 2

\* ------------------------------------------------------------------- C3
\* C3 as stated: 125 is returned exactly when a read fails or a write is
\* incomplete, and every setup failure before the open returns 126.
C3_Original ==
    Done =>
        /\ ret = 125 <=> (ReadFailed \/ WriteFailed)
        /\ (SomeFailed(SetupOps) \/ AddNodeFailed) => ret = 126

\* C3 amended: unless the open failed, 125 is returned exactly when a read
\* fails, a write is incomplete or adding one of the two nodes fails; a
\* failure of any other setup step returns 126.
C3_Amended ==
    (Done /\ ~OpenFailed) =>
        /\ ret = 125 <=> (ReadFailed \/ WriteFailed \/ AddNodeFailed)
        /\ SomeFailed(SetupOps) => ret = 126
        /\ ret = 126 => SomeFailed(SetupOps)

C3_Witness == Done /\ AddNodeFailed /\ ret = 125

\* ------------------------------------------------------------------- C4
\* C4: when open fails, the value returned is errno as it was right after
\* open returned, whatever the release calls did to errno, and is not 0.
C4_ReturnsOpenErrno ==
    (Done /\ OpenFailed) => (ret = open_errno /\ ret # 0)

\* ------------------------------------------------------------------- C5
\* C5: with a null argument zm_geniso returns EINVAL and does nothing else:
\* no call is made, nothing is initialised or created, the file is untouched.
C5_NullArgument ==
    ((output = NULL \/ user_data = NULL \/ meta_data = NULL) /\ pc # "entry") =>
        /\ Done /\ ret = EINVAL
        /\ calls = <<>>
        /\ initialized = {}
        /\ image = NULL /\ opts = NULL /\ burn_src = NULL
        /\ fd = -1
        /\ file = old_file

C5_Witness ==
    /\ Done /\ ret = EINVAL
    /\ output # NULL /\ user_data # NULL /\ meta_data = NULL
    /\ file = OldFile

\* ------------------------------------------------------------------- C6
\* C6: once a call reports a failure only releases follow, and zm_geniso
\* returns non-zero: no error result is ignored and followed by a return of 0.
C6_FirstErrorAborts ==
    /\ \A i \in 1..Len(calls) :
          ~calls[i].ok =>
              \A j \in (i + 1)..Len(calls) : calls[j].op \in ReleaseOps
    /\ (Done /\ \E i \in 1..Len(calls) : ~calls[i].ok) => ret # 0

\* ------------------------------------------------------------------- C7
\* C7: the burn source is created from (and bytes are written only of) an
\* image with volume identifier cidata whose root holds exactly the nodes
\* user-data and meta-data, bound to user_data and meta_data, once each,
\* with Rock Ridge and Joliet on.
C7_ImageAtBurnSource ==
    /\ burn_src # NULL =>
          /\ srcObj.image.volume_id = "cidata"
          /\ Len(srcObj.image.children) = 2
          /\ \E i, j \in 1..2 :
                /\ i # j
                /\ srcObj.image.children[i] =
                       [name |-> "user-data", path |-> user_data]
                /\ srcObj.image.children[j] =
                       [name |-> "meta-data", path |-> meta_data]
          /\ srcObj.opts.rockridge = 1
          /\ srcObj.opts.joliet = 1
    /\ (\E i \in 1..Len(calls) : calls[i].op = "write") => burn_src # NULL

C7_Witness == pc = "write" /\ burn_src # NULL /\ Len(chunks) = 1

\* ------------------------------------------------------------------- C8
\* C8 as stated: whenever 0 is returned the number of bytes written is a
\* multiple of 2048, whatever chunk lengths in 1 .. 2048 read returned.
C8_Original ==
    (Done /\ ret = 0) => FileSize % 2048 = 0

\* C8 amended: whenever 0 is returned the number of bytes written is the sum
\* of the chunk lengths read returned, hence a multiple of 2048 when every
\* chunk filled the 2048-byte buffer.
C8_Amended ==
    (Done /\ ret = 0) =>
        /\ FileSize = SumSeq(chunks)
        /\ (\A k \in 1..Len(chunks) : chunks[k] = BufSize) =>
               FileSize = Len(chunks) * 2048

C8_Witness ==
    /\ Done /\ ret = 0
    /\ Len(chunks) >= 2
    /\ \A k \in 1..Len(chunks) : chunks[k] = BufSize

\* ------------------------------------------------------------------- C9
LibRank(res) ==
    CASE res = "burn_src" -> 1
      [] res = "opts" -> 2
      [] res = "image" -> 3
      [] OTHER -> 0

Acquires(i) == calls[i].op \in AcquireOps /\ calls[i].ok
ReleasesAt(i) == calls[i].op \in ReleaseOps

\* C9: on every return each resource acquired has been released exactly
\* once, the library objects in the order burn source, options, image;
\* nothing is released that was not acquired, or twice.
C9_ReleasedExactlyOnce ==
    /\ \A j \in 1..Len(calls) :
          ReleasesAt(j) =>
              /\ \E i \in 1..(j - 1) :
                    Acquires(i) /\ ResourceOf(calls[i].op) = ResourceOf(calls[j].op)
              /\ \A k \in 1..Len(calls) :
                    (ReleasesAt(k) /\ ResourceOf(calls[k].op) = ResourceOf(calls[j].op))
                        => k = j
    /\ \A j, k \in 1..Len(calls) :
          (/\ ReleasesAt(j) /\ ReleasesAt(k) /\ j < k
           /\ LibRank(ResourceOf(calls[j].op)) > 0
           /\ LibRank(ResourceOf(calls[k].op)) > 0)
              => LibRank(ResourceOf(calls[j].op)) < LibRank(ResourceOf(calls[k].op))
    /\ Done =>
          \A i \in 1..Len(calls) :
              Acquires(i) =>
                  \E j \in (i + 1)..Len(calls) :
                      ReleasesAt(j) /\ ResourceOf(calls[j].op) = ResourceOf(calls[i].op)

C9_Witness ==
    /\ Done /\ OpenFailed
    /\ Len(Select(calls, ReleaseOps)) = 3

\* ------------------------------------------------------------------ C10
\* C10: open is reached only after the whole setup has succeeded, so until
\* the open succeeds (null argument, setup failure) the file at the output
\* path is as it was; once opened, the file's content is at every moment a
\* prefix of the stream the burn source has produced.
C10_FileOnlyAfterSetup ==
    /\ \A i \in 1..Len(calls) :
          calls[i].op = "open" =>
              /\ i = Len(FullSetup) + 1
              /\ \A k \in 1..Len(FullSetup) :
                    calls[k].op = FullSetup[k] /\ calls[k].ok
    /\ ~OpenSucceeded => file = old_file
    /\ OpenSucceeded =>
          /\ file.exists
          /\ IsStreamPrefix(file.data)
          /\ FileSize <= Produced

C10_Witness ==
    /\ pc = "close"
    /\ old_file = OldFile
    /\ Len(chunks) = 2
    /\ w > 0 /\ w < chunk

====
